---- MODULE Spec2Model ----
(***************************************************************************)
(* A model of parabot (src/parabot/parabot.py): the two worker pools that  *)
(* run Robot Framework units in parallel processes.                        *)
(*                                                                         *)
(*   pool_path_workers  multiprocessing.Pool(maxtasksperchild=1) with      *)
(*                      map_async(...).get(timeout), inside a with-block   *)
(*   pool_tag_workers   one multiprocessing.Process per tag, started in a  *)
(*                      loop, joined in a loop, exit codes collected       *)
(*                                                                         *)
(* The library calls are modelled by what CPython's multiprocessing does   *)
(* for them: map_async cuts the job list into chunks, every chunk is one   *)
(* task, a worker process leaves after maxtasksperchild tasks, the result  *)
(* handler stores each chunk's results at the chunk's position, get()      *)
(* raises TimeoutError when the result is not ready after the timeout, and *)
(* leaving the with-block terminates the pool.                             *)
(***************************************************************************)
EXTENDS Integers, Sequences, FiniteSets, TLC

(* ------------------------------ bounds -------------------------------- *)

\* the longest list of .robot files handed to the bounded pool on a host with
\* one core (long enough for map_async to cut chunks of more than one Job)
MaxJobs == 5
\* the longest list of .robot files handed to the bounded pool on a host with
\* more than one core
MaxParJobs == 3
\* the longest list of .robot files handed to the bounded pool when no
\* --timeout is passed
MaxDefaultJobs == 2
\* the largest host core count (os.cpu_count()) considered
MaxCores == 2
\* the largest value of the --timeout CLI argument considered
MaxTimeout == 1
\* the largest value the Runner returns (robot.run.run's return code)
MaxRc == 1
\* the longest list of tags handed to the unbounded pool
MaxTags == 3
\* the largest status a tag process exits with of its own accord
MaxExit == 2

(* ------------------------- program constants -------------------------- *)

\* pool_path_workers(..., timeout=60)
DefaultTimeout == 60

(* --------------------------- python values ---------------------------- *)

PyNone == [type |-> "NoneType"]
PyInt(n) == [type |-> "int", val |-> n]
PyList(s) == [type |-> "list", val |-> s]

\* args.timeout when --timeout was not passed
NoTimeoutArg == PyNone

\* what the captured stderr of one Runner invocation can hold
StderrTexts == {"", "[ ERROR ] e"}

\* what one Runner invocation (robot.run.run, or create_output_folder before
\* it) can do: return a return code having written to stderr, or raise
RunnerOutcomes ==
  [kind : {"return"}, rc : 0..MaxRc, stderr : StderrTexts]
    \cup {[kind |-> "raise", rc |-> 0, stderr |-> ""]}

\* the signals that can kill a tag process (SIGKILL, SIGTERM)
Signals == {9, 15}

\* how the process of one tag-Job can end: tag_worker returns (the Runner
\* returned rc having written stderr), tag_worker raises, the process exits
\* with a status of its own (SystemExit), or a signal kills it
ProcessEnds ==
  [kind : {"return"}, rc : 0..MaxRc, stderr : StderrTexts, n : {0}]
    \cup {[kind |-> "raise", rc |-> 0, stderr |-> "", n |-> 0]}
    \cup [kind : {"exit"}, rc : {0}, stderr : {""}, n : 1..MaxExit]
    \cup [kind : {"signal"}, rc : {0}, stderr : {""}, n : Signals]

VARIABLES
  cores,          \* os.cpu_count() of the host
  filepathslist,  \* the list of .robot files (Jobs), in submission order
  argsTimeout,    \* args.timeout: PyNone or PyInt(seconds)
  timeout,        \* pool_path_workers' timeout parameter, in seconds
  pc,             \* where pool_path_workers is: "start", "waiting", "done"
                  \* ("idle" when it is not called)
  clock,          \* seconds elapsed since get(timeout) began to wait
  worker,         \* the pool's worker processes, by slot
  taskqueue,      \* chunk numbers not yet taken by a worker, in order
  outqueue,       \* chunk results put by workers, not yet handled
  job,            \* per Job: how far it got and what its Runner did
  value,          \* MapResult._value
  number_left,    \* MapResult._number_left
  success,        \* MapResult._success
  outcome,        \* how the call ended: "pending", "returned", "raised"
  ret,            \* the value pool_path_workers returned
  lastrun,        \* the latest path_worker call that returned: the Runner's
                  \* return code, the captured stderr, path_worker's result
  diag,           \* whether the "running too long" message was printed
  poolstate,      \* Pool._state: "none" before the pool exists, "RUN",
                  \* "TERMINATE"
  overtaken,      \* whether a chunk's result was queued while an earlier
                  \* chunk was still being executed
  tags,           \* the list of tags (Jobs), in submission order
  procesess,      \* pool_tag_workers' list of started processes
  joined,         \* how many of them the join loop has joined
  tpc,            \* where pool_tag_workers is: "start", "join", "done"
                  \* ("idle" when it is not called)
  tret,           \* the value pool_tag_workers returned
  overtook,       \* whether a tag process ended while one started before it
                  \* was still running
  args,           \* what parse_args() returned to main, but args.timeout
  mpc,            \* where main is: the if statement it is at ("all",
                  \* "folders", "tags"), "return", "end" ("idle" when it is
                  \* not called)
  calls,          \* the pool calls main has made that returned, in order
  mainret         \* how main ended and what it returned

pathvars == <<cores, filepathslist, argsTimeout, timeout, pc, clock, worker,
              taskqueue, outqueue, job, value, number_left, success, outcome,
              ret, lastrun, diag, poolstate, overtaken>>

tagvars == <<tags, procesess, joined, tpc, tret, overtook>>

mainvars == <<args, mpc, calls, mainret>>

vars == <<pathvars, tagvars, mainvars>>

(* --------------------------- worker function -------------------------- *)

_check_stderr(stderr) ==
  IF stderr # "" THEN PyInt(1) ELSE PyNone

\* a path_worker that trusts the Runner's return code instead of the stderr
path_worker_rc(run) == IF run.rc # 0 THEN PyInt(1) ELSE PyNone

\* path_worker's return value when the Runner returned
path_worker(run) == _check_stderr(run.stderr)

(* ------------------------------ map_async ----------------------------- *)

NJobs == Len(filepathslist)

\* Pool(): processes=None means os.cpu_count()
Processes == cores

\* chunksize, extra = divmod(len(iterable), len(pool) * 4); if extra: += 1
ChunkSize(n, procs) ==
  IF n = 0 THEN 0
  ELSE (n \div (procs * 4)) + (IF n % (procs * 4) # 0 THEN 1 ELSE 0)

\* MapResult: number_left = length // chunksize + bool(length % chunksize)
NumChunks(n, cs) ==
  IF cs = 0 THEN 0 ELSE (n \div cs) + (IF n % cs # 0 THEN 1 ELSE 0)

CS == ChunkSize(NJobs, Processes)

\* the Jobs (positions of filepathslist) of chunk c, c = 1, 2, ...
ChunkFirst(c) == (c - 1) * CS + 1
ChunkLast(c) == IF c * CS < NJobs THEN c * CS ELSE NJobs
ChunkLen(c) == ChunkLast(c) - ChunkFirst(c) + 1

\* maxtasksperchild=1: a worker process leaves after this many tasks
MaxTasksPerChild == 1

IdleWorker == [st |-> "idle", task |-> 0, pos |-> 0, acc |-> <<>>, ran |-> 0,
               completed |-> 0]
GoneWorker == [st |-> "terminated", task |-> 0, pos |-> 0, acc |-> <<>>,
               ran |-> 0, completed |-> 0]

\* a Job no worker has taken: path_worker has created neither of its StringIO
\* buffers (out: stdout, err: stderr) and has called run() for it runs times
NewJob == [st |-> "pending", stderr |-> "", res |-> PyNone,
           out |-> "none", err |-> "none", runs |-> 0]

\* path_worker and tag_worker up to the call of run(): both buffers created
\* and open, the Runner invoked
RunnerCalled(j) ==
  [j EXCEPT !.st = "running", !.out = "open", !.err = "open", !.runs = @ + 1]

\* no Runner invocation has returned yet
NoRun == [rc |-> 0, stderr |-> "", res |-> PyNone]

\* the exception a raising path_worker leaves in MapResult._value
PyExc == [type |-> "Exception"]

\* a sentinel of the shape of a result list: return [1]
TimeoutSentinelList == PyList(<<PyInt(1)>>)

\* except TimeoutError: ... return 1
TimeoutSentinel == PyInt(1)

Ready == number_left = 0

(* -------------------------------- Init -------------------------------- *)

\* pool_path_workers not in use
NoPathPool ==
  /\ cores = 1
  /\ filepathslist = <<>>
  /\ argsTimeout = NoTimeoutArg
  /\ timeout = 0
  /\ pc = "idle"
  /\ clock = 0
  /\ worker = <<>>
  /\ taskqueue = <<>>
  /\ outqueue = <<>>
  /\ job = <<>>
  /\ value = PyList(<<>>)
  /\ number_left = 0
  /\ success = TRUE
  /\ outcome = "pending"
  /\ ret = PyNone
  /\ lastrun = NoRun
  /\ diag = FALSE
  /\ poolstate = "none"
  /\ overtaken = FALSE

\* pool_tag_workers not in use
NoTagPool ==
  /\ tags = <<>>
  /\ procesess = <<>>
  /\ joined = 0
  /\ tpc = "idle"
  /\ tret = PyNone
  /\ overtook = FALSE

\* command line arguments main would read
NoArgs == [all |-> FALSE, folders |-> FALSE, tags |-> PyNone]

\* main not in use: a pool function is called on its own
NoMain ==
  /\ args = NoArgs
  /\ mpc = "idle"
  /\ calls = <<>>
  /\ mainret = [outcome |-> "pending", val |-> PyNone]

\* before pool_path_workers is called
PathStart ==
  /\ timeout = 0
  /\ pc = "start"
  /\ clock = 0
  /\ worker = <<>>
  /\ taskqueue = <<>>
  /\ outqueue = <<>>
  /\ job = [i \in 1..Len(filepathslist) |-> NewJob]
  /\ value = PyList(<<>>)
  /\ number_left = 0
  /\ success = TRUE
  /\ outcome = "pending"
  /\ ret = PyNone
  /\ lastrun = NoRun
  /\ diag = FALSE
  /\ poolstate = "none"
  /\ overtaken = FALSE

\* main with --timeout: pool_path_workers(..., timeout=args.timeout)
InitPath ==
  /\ NoTagPool
  /\ NoMain
  /\ cores \in 1..MaxCores
  /\ filepathslist \in {[i \in 1..n |-> i] : n \in 0..MaxJobs}
  /\ cores > 1 => Len(filepathslist) <= MaxParJobs
  /\ argsTimeout \in {PyInt(t) : t \in 0..MaxTimeout}
  /\ PathStart

\* main without --timeout: pool_path_workers(path_worker, filepathslist)
InitDefault ==
  /\ NoTagPool
  /\ NoMain
  /\ cores \in 1..MaxCores
  /\ filepathslist \in {[i \in 1..n |-> i] : n \in 0..MaxDefaultJobs}
  /\ argsTimeout = NoTimeoutArg
  /\ PathStart

(* ------------------------- pool_path_workers -------------------------- *)

\* a call without timeout that waits no time at all
EffectiveTimeoutNone(arg) ==
  IF arg = NoTimeoutArg THEN 0 ELSE arg.val

\* main: pool_path_workers(path_worker, filepathslist) when args.timeout is
\* None, pool_path_workers(..., timeout=args.timeout) otherwise
EffectiveTimeout(arg) ==
  IF arg = NoTimeoutArg THEN DefaultTimeout ELSE arg.val

\* get_context("spawn").Pool(maxtasksperchild=1); p.map_async(path_worker,
\* filepathslist): the workers are started, the chunks are queued, the
\* MapResult is set up, and get(timeout) begins to wait
PoolCall ==
  /\ pc = "start"
  /\ timeout' = EffectiveTimeout(argsTimeout)
  /\ worker' = [w \in 1..Processes |-> IdleWorker]
  /\ taskqueue' = [c \in 1..NumChunks(NJobs, CS) |-> c]
  /\ value' = PyList([i \in 1..NJobs |-> PyNone])
  /\ number_left' = NumChunks(NJobs, CS)
  /\ success' = TRUE
  /\ clock' = 0
  /\ pc' = "waiting"
  /\ poolstate' = "RUN"
  /\ UNCHANGED <<cores, filepathslist, argsTimeout, outqueue, job, outcome,
                 ret, lastrun, diag, overtaken>>
  /\ UNCHANGED <<tagvars, mainvars>>

Workers == DOMAIN worker

\* the Job a busy worker is executing
CurrentJob(w) == ChunkFirst(worker[w].task) + worker[w].pos - 1

\* a worker that completed a task leaves when it has done maxtasksperchild
AfterTask(w) ==
  IF worker[w].completed + 1 >= MaxTasksPerChild
  THEN [worker[w] EXCEPT !.st = "exited", !.task = 0, !.pos = 0, !.acc = <<>>,
                         !.completed = @ + 1]
  ELSE [worker[w] EXCEPT !.st = "idle", !.task = 0, !.pos = 0, !.acc = <<>>,
                         !.completed = @ + 1]

\* whether a worker other than w is still executing a chunk before chunk c
EarlierChunkBusy(w, c) ==
  \E v \in Workers \ {w} : worker[v].st = "busy" /\ worker[v].task < c

\* a worker process takes the next task (chunk) and calls path_worker on the
\* chunk's first Job
TakeTask(w) ==
  /\ worker[w].st = "idle"
  /\ taskqueue # <<>>
  /\ LET c == Head(taskqueue) IN
       /\ worker' = [worker EXCEPT ![w] = [@ EXCEPT !.st = "busy", !.task = c,
                                             !.pos = 1, !.acc = <<>>,
                                             !.ran = @ + 1]]
       /\ job' = [job EXCEPT ![ChunkFirst(c)] = RunnerCalled(@)]
  /\ taskqueue' = Tail(taskqueue)
  /\ UNCHANGED <<cores, filepathslist, argsTimeout, timeout, pc, clock,
                 outqueue, value, number_left, success, outcome, ret, lastrun,
                 diag, poolstate, overtaken>>
  /\ UNCHANGED <<tagvars, mainvars>>

\* path_worker returns for the worker's current Job: the Runner returned run.rc
\* having written run.stderr. The worker goes on to the chunk's next Job, or
\* puts the chunk's results on the result queue
JobReturns(w, run) ==
  /\ worker[w].st = "busy"
  /\ run.kind = "return"
  /\ LET i == CurrentJob(w)
         c == worker[w].task
         res == path_worker(run)
         acc == Append(worker[w].acc, res)
         done == [job EXCEPT ![i] = [@ EXCEPT !.st = "finished",
                                              !.stderr = run.stderr,
                                              !.res = res,
                                              !.out = "closed",
                                              !.err = "closed"]]
     IN
       /\ lastrun' = [rc |-> run.rc, stderr |-> run.stderr, res |-> res]
       /\ IF worker[w].pos < ChunkLen(c)
          THEN /\ worker' = [worker EXCEPT ![w] = [@ EXCEPT !.pos = @ + 1,
                                                          !.acc = acc,
                                                          !.ran = @ + 1]]
               /\ job' = [done EXCEPT ![i + 1] = RunnerCalled(@)]
               /\ UNCHANGED <<outqueue, overtaken>>
          ELSE /\ worker' = [worker EXCEPT ![w] = AfterTask(w)]
               /\ job' = done
               /\ outqueue' = Append(outqueue,
                                     [chunk |-> c, ok |-> TRUE, val |-> acc])
               /\ overtaken' = (overtaken \/ EarlierChunkBusy(w, c))
  /\ UNCHANGED <<cores, filepathslist, argsTimeout, timeout, pc, clock,
                 taskqueue, value, number_left, success, outcome, ret, diag,
                 poolstate>>
  /\ UNCHANGED <<tagvars, mainvars>>

\* path_worker raises for the worker's current Job, out of run() or out of
\* create_output_folder, with both buffers created and neither close() reached:
\* mapstar's list(map(...)) stops there, the rest of the chunk is never run,
\* and the worker puts the exception on the result queue
JobRaises(w) ==
  /\ worker[w].st = "busy"
  /\ LET i == CurrentJob(w)
         c == worker[w].task
     IN
       /\ job' = [k \in DOMAIN job |->
                    IF k = i THEN [job[k] EXCEPT !.st = "raised"]
                    ELSE IF k > i /\ k <= ChunkLast(c)
                         THEN [job[k] EXCEPT !.st = "skipped"]
                         ELSE job[k]]
       /\ outqueue' = Append(outqueue,
                             [chunk |-> c, ok |-> FALSE, val |-> <<>>])
       /\ overtaken' = (overtaken \/ EarlierChunkBusy(w, c))
  /\ worker' = [worker EXCEPT ![w] = AfterTask(w)]
  /\ UNCHANGED <<cores, filepathslist, argsTimeout, timeout, pc, clock,
                 taskqueue, value, number_left, success, outcome, ret, lastrun,
                 diag, poolstate>>
  /\ UNCHANGED <<tagvars, mainvars>>

\* a store in the order of arrival: the first chunk handled goes first
StoreChunkArrival(val, c, result) ==
  LET a == NumChunks(NJobs, CS) - number_left + 1 IN
    [k \in 1..Len(val) |->
       IF k >= ChunkFirst(a) /\ k <= ChunkLast(a)
          /\ (k - ChunkFirst(a) + 1) \in DOMAIN result
       THEN result[k - ChunkFirst(a) + 1]
       ELSE val[k]]

\* MapResult._set's store: self._value[i*chunksize:(i+1)*chunksize] = result
StoreChunk(val, c, result) ==
  [k \in 1..Len(val) |->
     IF k >= ChunkFirst(c) /\ k <= ChunkLast(c)
     THEN result[k - ChunkFirst(c) + 1]
     ELSE val[k]]

\* the pool's result handler takes one chunk result and calls MapResult._set
HandleResult ==
  /\ poolstate = "RUN"
  /\ outqueue # <<>>
  /\ LET r == Head(outqueue) IN
       /\ number_left' = number_left - 1
       /\ IF r.ok /\ success
          THEN /\ value' = PyList(StoreChunk(value.val, r.chunk, r.val))
               /\ UNCHANGED success
          ELSE IF ~r.ok /\ success
               THEN /\ success' = FALSE
                    /\ value' = PyExc
               ELSE UNCHANGED <<success, value>>
  /\ outqueue' = Tail(outqueue)
  /\ UNCHANGED <<cores, filepathslist, argsTimeout, timeout, pc, clock,
                 worker, taskqueue, job, outcome, ret, lastrun, diag,
                 poolstate, overtaken>>
  /\ UNCHANGED <<tagvars, mainvars>>

\* the pool's worker handler replaces a worker process that left by a fresh one
MaintainPool(w) ==
  /\ poolstate = "RUN"
  /\ worker[w].st = "exited"
  /\ worker' = [worker EXCEPT ![w] = IdleWorker]
  /\ UNCHANGED <<cores, filepathslist, argsTimeout, timeout, pc, clock,
                 taskqueue, outqueue, job, value, number_left, success,
                 outcome, ret, lastrun, diag, poolstate, overtaken>>
  /\ UNCHANGED <<tagvars, mainvars>>

\* one second passes while get(timeout) waits
Tick ==
  /\ pc = "waiting"
  /\ clock < timeout
  /\ clock' = clock + 1
  /\ UNCHANGED <<cores, filepathslist, argsTimeout, timeout, pc, worker,
                 taskqueue, outqueue, job, value, number_left, success,
                 outcome, ret, lastrun, diag, poolstate, overtaken>>
  /\ UNCHANGED <<tagvars, mainvars>>

\* a pool that is left as it is when the call returns (no with-block)
PoolExitLeak ==
  UNCHANGED <<poolstate, worker, taskqueue, outqueue, job>>

\* leaving the with-block: Pool.__exit__ calls terminate(), which ends every
\* worker process and joins it, and drops what is queued
PoolExit ==
  /\ poolstate' = "TERMINATE"
  /\ worker' = [w \in DOMAIN worker |-> GoneWorker]
  /\ taskqueue' = <<>>
  /\ outqueue' = <<>>
  /\ job' = [k \in DOMAIN job |->
               IF job[k].st = "running" THEN [job[k] EXCEPT !.st = "aborted"]
               ELSE job[k]]

\* a call that catches whatever get(timeout) raises and returns 1: except
\* Exception in the place of except TimeoutError
GetResultCatchAll ==
  /\ pc = "waiting"
  /\ Ready
  /\ IF success
     THEN outcome' = "returned" /\ ret' = value
     ELSE outcome' = "returned" /\ ret' = TimeoutSentinel
  /\ PoolExit
  /\ pc' = "done"
  /\ UNCHANGED <<cores, filepathslist, argsTimeout, timeout, clock, value,
                 number_left, success, lastrun, diag, overtaken>>
  /\ UNCHANGED <<tagvars, mainvars>>

\* get(timeout) finds the result ready: it returns the list, or raises the
\* first exception a path_worker raised
GetResult ==
  /\ pc = "waiting"
  /\ Ready
  /\ IF success
     THEN outcome' = "returned" /\ ret' = value
     ELSE outcome' = "raised" /\ UNCHANGED ret
  /\ PoolExit
  /\ pc' = "done"
  /\ UNCHANGED <<cores, filepathslist, argsTimeout, timeout, clock, value,
                 number_left, success, lastrun, diag, overtaken>>
  /\ UNCHANGED <<tagvars, mainvars>>

\* get(timeout) finds the result not ready after timeout seconds: TimeoutError,
\* the message is printed, 1 is returned
GetTimeout ==
  /\ pc = "waiting"
  /\ ~Ready
  /\ clock >= timeout
  /\ diag' = TRUE
  /\ outcome' = "returned"
  /\ ret' = TimeoutSentinel
  /\ PoolExit
  /\ pc' = "done"
  /\ UNCHANGED <<cores, filepathslist, argsTimeout, timeout, clock, value,
                 number_left, success, lastrun, overtaken>>
  /\ UNCHANGED <<tagvars, mainvars>>

NextPath ==
  \/ PoolCall
  \/ \E w \in Workers : TakeTask(w)
  \/ \E w \in Workers : \E run \in RunnerOutcomes : JobReturns(w, run)
  \/ \E w \in Workers : JobRaises(w)
  \/ HandleResult
  \/ \E w \in Workers : MaintainPool(w)
  \/ Tick
  \/ GetResult
  \/ GetTimeout

SpecPath == InitPath /\ [][NextPath]_vars

SpecDefault == InitDefault /\ [][NextPath]_vars

(* -------------------------- pool_tag_workers -------------------------- *)

InitTag ==
  /\ NoPathPool
  /\ NoMain
  /\ tags \in {[i \in 1..n |-> i] : n \in 0..MaxTags}
  /\ procesess = <<>>
  /\ joined = 0
  /\ tpc = "start"
  /\ tret = PyNone
  /\ overtook = FALSE

\* tag_worker's return value when the Runner returned
tag_worker(run) == _check_stderr(run.stderr)

\* a process that exits with what tag_worker returned: sys.exit(tag_worker(tag))
ExitStatusFromWorker(end) ==
  CASE end.kind = "return" -> IF end.stderr # "" THEN 1 ELSE 0
    [] end.kind = "raise" -> 1
    [] end.kind = "exit" -> end.n
    [] end.kind = "signal" -> 0 - end.n

\* Process.exitcode of a process that ended: 0 when the target returned, 1
\* when it raised, the status it exited with, -S when signal S killed it
ExitStatus(end) ==
  CASE end.kind = "return" -> 0
    [] end.kind = "raise" -> 1
    [] end.kind = "exit" -> end.n
    [] end.kind = "signal" -> 0 - end.n

\* proc.exitcode: None while the process has not terminated
exitcode(proc) ==
  IF proc.st = "running" THEN PyNone ELSE PyInt(ExitStatus(proc.end))

NoEnd == [kind |-> "none", rc |-> 0, stderr |-> "", n |-> 0]

\* a loop that puts each started process at the front: procesess.insert(0, p)
TagStartPrepend ==
  /\ tpc = "start"
  /\ Len(procesess) < Len(tags)
  /\ procesess' = <<[tag |-> tags[Len(procesess) + 1], st |-> "running",
                     end |-> NoEnd, result |-> PyNone, reaped |-> FALSE,
                     out |-> "open", err |-> "open"]>>
                     \o procesess
  /\ UNCHANGED <<tags, joined, tpc, tret, overtook>>
  /\ UNCHANGED <<pathvars, mainvars>>

\* a loop that runs the processes one after the other: p.start(); p.join()
TagStartOneByOne ==
  /\ tpc = "start"
  /\ Len(procesess) < Len(tags)
  /\ \A k \in DOMAIN procesess : procesess[k].st = "exited"
  /\ procesess' = Append(procesess,
                         [tag |-> tags[Len(procesess) + 1], st |-> "running",
                          end |-> NoEnd, result |-> PyNone, reaped |-> FALSE,
                          out |-> "open", err |-> "open"])
  /\ UNCHANGED <<tags, joined, tpc, tret, overtook>>
  /\ UNCHANGED <<pathvars, mainvars>>

\* one turn of the for loop: Process(target=tag_worker, args=(tag,)), p.start(),
\* procesess.append(p); the process runs tag_worker up to the call of run(),
\* with both buffers created and open
TagStart ==
  /\ tpc = "start"
  /\ Len(procesess) < Len(tags)
  /\ procesess' = Append(procesess,
                         [tag |-> tags[Len(procesess) + 1], st |-> "running",
                          end |-> NoEnd, result |-> PyNone, reaped |-> FALSE,
                          out |-> "open", err |-> "open"])
  /\ UNCHANGED <<tags, joined, tpc, tret, overtook>>
  /\ UNCHANGED <<pathvars, mainvars>>

\* the for loop is over: the join loop begins
TagStartDone ==
  /\ tpc = "start"
  /\ Len(procesess) = Len(tags)
  /\ tpc' = "join"
  /\ UNCHANGED <<tags, procesess, joined, tret, overtook>>
  /\ UNCHANGED <<pathvars, mainvars>>

\* the process of the i-th tag ends; when tag_worker returned, it has closed
\* both buffers and result is what it returned, which the process drops; any
\* other end leaves run() without reaching a close()
TagProcessEnds(i, end) ==
  /\ tpc \in {"start", "join"}
  /\ procesess[i].st = "running"
  /\ procesess' = [procesess EXCEPT ![i] =
                     [@ EXCEPT !.st = "exited", !.end = end,
                               !.result = IF end.kind = "return"
                                          THEN tag_worker(end) ELSE PyNone,
                               !.out = IF end.kind = "return"
                                       THEN "closed" ELSE @,
                               !.err = IF end.kind = "return"
                                       THEN "closed" ELSE @]]
  /\ overtook' = (overtook \/ \E k \in 1..(i - 1) : procesess[k].st = "running")
  /\ UNCHANGED <<tags, joined, tpc, tret>>
  /\ UNCHANGED <<pathvars, mainvars>>

\* the process the join loop waits for next, in the order of procesess
NextToJoin == joined + 1

\* a join that does not wait for the process to end: proc.join(0)
TagJoinNoWait ==
  /\ tpc = "join"
  /\ joined < Len(procesess)
  /\ procesess' = [procesess EXCEPT ![NextToJoin].reaped =
                                      (procesess[NextToJoin].st = "exited")]
  /\ joined' = joined + 1
  /\ UNCHANGED <<tags, tpc, tret, overtook>>
  /\ UNCHANGED <<pathvars, mainvars>>

\* one turn of [proc.join() for proc in procesess]: join() returns once the
\* process has ended, and reaps it
TagJoin ==
  /\ tpc = "join"
  /\ joined < Len(procesess)
  /\ procesess[NextToJoin].st = "exited"
  /\ procesess' = [procesess EXCEPT ![NextToJoin].reaped = TRUE]
  /\ joined' = joined + 1
  /\ UNCHANGED <<tags, tpc, tret, overtook>>
  /\ UNCHANGED <<pathvars, mainvars>>

\* a return that does not wait for the joins: the comprehension of joins left
\* out
TagReturnNoJoin ==
  /\ tpc = "join"
  /\ tret' = PyList([i \in 1..Len(procesess) |-> exitcode(procesess[i])])
  /\ tpc' = "done"
  /\ UNCHANGED <<tags, procesess, joined, overtook>>
  /\ UNCHANGED <<pathvars, mainvars>>

\* return [proc.exitcode for proc in procesess]
TagReturn ==
  /\ tpc = "join"
  /\ joined = Len(procesess)
  /\ tret' = PyList([i \in 1..Len(procesess) |-> exitcode(procesess[i])])
  /\ tpc' = "done"
  /\ UNCHANGED <<tags, procesess, joined, overtook>>
  /\ UNCHANGED <<pathvars, mainvars>>

NextTag ==
  \/ TagStart
  \/ TagStartDone
  \/ \E i \in DOMAIN procesess : \E end \in ProcessEnds : TagProcessEnds(i, end)
  \/ TagJoin
  \/ TagReturn

SpecTag == InitTag /\ [][NextTag]_vars

\* pool_tag_workers with its caller scheduled: the process that runs the two
\* loops and the return is never held up but by a join; nothing makes a tag
\* process end
SpecTagFair ==
  /\ SpecTag
  /\ WF_vars(TagStart)
  /\ WF_vars(TagStartDone)
  /\ WF_vars(TagJoin)
  /\ WF_vars(TagReturn)

(* -------------------------- output directories ------------------------- *)

\* the longest list of the submissions whose output directories are compared
MaxOutJobs == 2

\* the .robot files of a tree, as the paths a directory walk lists them: two
\* files of one name in two directories, two files of one directory
RobotFiles ==
  <<[parent |-> "a", name |-> "x.robot"],
    [parent |-> "b", name |-> "x.robot"],
    [parent |-> "b", name |-> "y.robot"]>>

\* the tags a command line can name
TagNames == {"smoke", "slow"}

\* parabot.utils.get_parent_dir: the directory the file is in
get_parent_dir(filepath) == filepath.parent

\* parabot.utils.create_output_folder: the directory derived from the base
\* directory and the name, a different one for a different base or name
create_output_folder(basepath, name) == <<basepath, name>>

\* the outputdir path_worker hands to run() for filepath
path_outputdir(filepath) ==
  create_output_folder(get_parent_dir(filepath), filepath.name)

\* the outputdir tag_worker hands to run() for tag
tag_outputdir(tag) == create_output_folder("./reports/", tag)

\* one submission: a list of files to pool_path_workers, or a list of tags
\* to pool_tag_workers, which takes the list as the command line gave it
InitOutput ==
  /\ NoMain
  /\ \/ /\ NoTagPool
        /\ cores \in 1..MaxCores
        /\ \E a \in 1..(Len(RobotFiles) + 1) : \E n \in 0..MaxOutJobs :
             /\ a + n - 1 <= Len(RobotFiles)
             /\ filepathslist = SubSeq(RobotFiles, a, a + n - 1)
        /\ argsTimeout \in {PyInt(t) : t \in 0..MaxTimeout}
        /\ PathStart
     \/ /\ NoPathPool
        /\ \E n \in 0..MaxOutJobs : tags \in [1..n -> TagNames]
        /\ procesess = <<>>
        /\ joined = 0
        /\ tpc = "start"
        /\ tret = PyNone
        /\ overtook = FALSE

NextOutput ==
  \/ NextPath
  \/ NextTag

SpecOutput == InitOutput /\ [][NextOutput]_vars

(* -------------------------------- main -------------------------------- *)

\* the most files a discovery of main's finds, the most tags its command line
\* names, the most cores of the host main runs on
MaxMainJobs == 1
MaxMainTags == 1
MaxMainCores == 1

\* args = parse_args(): --all given or not, --folders given or not (the
\* folders themselves only matter to the discovery), the tags of --tags or
\* None, and the timeout of --timeout or None
InitMain ==
  /\ cores \in 1..MaxMainCores
  /\ argsTimeout \in {NoTimeoutArg} \cup {PyInt(t) : t \in 0..MaxTimeout}
  /\ filepathslist = <<>>
  /\ timeout = 0
  /\ pc = "idle"
  /\ clock = 0
  /\ worker = <<>>
  /\ taskqueue = <<>>
  /\ outqueue = <<>>
  /\ job = <<>>
  /\ value = PyList(<<>>)
  /\ number_left = 0
  /\ success = TRUE
  /\ outcome = "pending"
  /\ ret = PyNone
  /\ lastrun = NoRun
  /\ diag = FALSE
  /\ poolstate = "none"
  /\ overtaken = FALSE
  /\ NoTagPool
  /\ args \in [all : BOOLEAN, folders : BOOLEAN,
               tags : {PyNone} \cup {PyList([i \in 1..n |-> i]) :
                                       n \in 0..MaxMainTags}]
  /\ mpc = "all"
  /\ calls = <<>>
  /\ mainret = [outcome |-> "pending", val |-> PyNone]

\* whether the mode of the if statement main is at was requested
Requested(mode) ==
  CASE mode = "all" -> args.all
    [] mode = "folders" -> args.folders
    [] mode = "tags" -> args.tags # PyNone

\* the statement after the if statement of a mode
AfterMode(mode) ==
  CASE mode = "all" -> "folders"
    [] mode = "folders" -> "tags"
    [] mode = "tags" -> "return"

\* the call of pool_path_workers begins, with the list the discovery found
PathEnter(list) ==
  /\ filepathslist' = list
  /\ timeout' = 0
  /\ pc' = "start"
  /\ clock' = 0
  /\ worker' = <<>>
  /\ taskqueue' = <<>>
  /\ outqueue' = <<>>
  /\ job' = [i \in 1..Len(list) |-> NewJob]
  /\ value' = PyList(<<>>)
  /\ number_left' = 0
  /\ success' = TRUE
  /\ outcome' = "pending"
  /\ ret' = PyNone
  /\ lastrun' = NoRun
  /\ diag' = FALSE
  /\ poolstate' = "none"
  /\ overtaken' = FALSE
  /\ UNCHANGED <<cores, argsTimeout>>

\* the call of pool_path_workers is over: its frame and its pool are gone
PathLeave ==
  /\ filepathslist' = <<>>
  /\ timeout' = 0
  /\ pc' = "idle"
  /\ clock' = 0
  /\ worker' = <<>>
  /\ taskqueue' = <<>>
  /\ outqueue' = <<>>
  /\ job' = <<>>
  /\ value' = PyList(<<>>)
  /\ number_left' = 0
  /\ success' = TRUE
  /\ outcome' = "pending"
  /\ ret' = PyNone
  /\ lastrun' = NoRun
  /\ diag' = FALSE
  /\ poolstate' = "none"
  /\ overtaken' = FALSE
  /\ UNCHANGED <<cores, argsTimeout>>

\* what a pool call that returned gave back, which main drops: "timeout" for
\* the sentinel, "fail" for a list with a Fail entry, "ok" for any other list
PathResult ==
  IF ret.type = "int" THEN "timeout"
  ELSE IF \E i \in DOMAIN ret.val : ret.val[i] = PyInt(1) THEN "fail"
  ELSE "ok"

TagResult ==
  IF \E i \in DOMAIN tret.val : tret.val[i] # PyInt(0) THEN "fail" ELSE "ok"

\* an if statement whose mode was not requested: neither branch is taken
MainSkip ==
  /\ mpc \in {"all", "folders", "tags"}
  /\ ~Requested(mpc)
  /\ mpc' = AfterMode(mpc)
  /\ UNCHANGED <<args, calls, mainret>>
  /\ UNCHANGED <<pathvars, tagvars>>

\* --all or --folders requested: the discovery (get_all_robot_files,
\* get_specific_robot_files_by_paths) finds a list of files and main calls
\* pool_path_workers with it, with timeout=args.timeout when --timeout is given
MainCallPath ==
  /\ mpc \in {"all", "folders"}
  /\ Requested(mpc)
  /\ pc = "idle"
  /\ \E n \in 0..MaxMainJobs : PathEnter([i \in 1..n |-> i])
  /\ UNCHANGED mainvars
  /\ UNCHANGED tagvars

\* main at a return of a pool that stops at the first failed or timed out
\* mode: if pool_path_workers(...) is not a clean list, return
AfterPoolStopOnFail(mode, result) ==
  IF result \in {"fail", "timeout"} THEN "return" ELSE AfterMode(mode)

\* where main goes on when the pool call of a mode returned: to the next if
\* statement, whatever the call returned
AfterPool(mode, result) == AfterMode(mode)

\* pool_path_workers returned a list or the sentinel: main drops it
MainPathReturns ==
  /\ mpc \in {"all", "folders"}
  /\ pc = "done"
  /\ outcome = "returned"
  /\ calls' = Append(calls, [mode |-> mpc, pool |-> "pool_path_workers",
                             result |-> PathResult])
  /\ mpc' = AfterPool(mpc, PathResult)
  /\ PathLeave
  /\ UNCHANGED <<args, mainret>>
  /\ UNCHANGED tagvars

\* pool_path_workers raised: main has no handler, the exception leaves main
MainPathRaises ==
  /\ mpc \in {"all", "folders"}
  /\ pc = "done"
  /\ outcome = "raised"
  /\ calls' = Append(calls, [mode |-> mpc, pool |-> "pool_path_workers",
                             result |-> "raised"])
  /\ mpc' = "end"
  /\ mainret' = [outcome |-> "raised", val |-> PyNone]
  /\ PathLeave
  /\ UNCHANGED args
  /\ UNCHANGED tagvars

\* --tags requested: pool_tag_workers(tag_worker, args.tags)
MainCallTag ==
  /\ mpc = "tags"
  /\ Requested(mpc)
  /\ tpc = "idle"
  /\ tags' = args.tags.val
  /\ procesess' = <<>>
  /\ joined' = 0
  /\ tpc' = "start"
  /\ tret' = PyNone
  /\ overtook' = FALSE
  /\ UNCHANGED mainvars
  /\ UNCHANGED pathvars

\* pool_tag_workers returned its list of exit codes: main drops it
MainTagReturns ==
  /\ mpc = "tags"
  /\ tpc = "done"
  /\ calls' = Append(calls, [mode |-> mpc, pool |-> "pool_tag_workers",
                             result |-> TagResult])
  /\ mpc' = AfterPool(mpc, TagResult)
  /\ tags' = <<>>
  /\ procesess' = <<>>
  /\ joined' = 0
  /\ tpc' = "idle"
  /\ tret' = PyNone
  /\ overtook' = FALSE
  /\ UNCHANGED <<args, mainret>>
  /\ UNCHANGED pathvars

\* a main that reports what the pools returned: return 1 when a pool call
\* gave a Fail or the sentinel
MainResultRolledUp ==
  IF \E k \in DOMAIN calls : calls[k].result \in {"fail", "timeout"}
  THEN PyInt(1) ELSE PyNone

\* what main returns: it falls off its end (def main() -> None)
MainResult == PyNone

\* main returns
MainReturn ==
  /\ mpc = "return"
  /\ mpc' = "end"
  /\ mainret' = [outcome |-> "returned", val |-> MainResult]
  /\ UNCHANGED <<args, calls>>
  /\ UNCHANGED <<pathvars, tagvars>>

NextMain ==
  \/ MainSkip
  \/ MainCallPath
  \/ MainPathReturns
  \/ MainPathRaises
  \/ MainCallTag
  \/ MainTagReturns
  \/ MainReturn
  \/ NextPath
  \/ NextTag

SpecMain == InitMain /\ [][NextMain]_vars

(* ------------------------------- claims ------------------------------- *)

\* the classification of a Job that was run to its end: Fail iff the stderr
\* captured during its Runner invocation is not empty
Fail == PyInt(1)
Ok == PyNone
Classification(i) == IF job[i].stderr # "" THEN Fail ELSE Ok

AllClassified == \A i \in 1..NJobs : job[i].st = "finished"

\* C1: when pool_path_workers is over, no timeout fired and every Job was run
\* to its classification, the call returned a list with one entry per
\* submitted Job, the i-th entry being the classification of the i-th Job,
\* whatever the order in which the workers finished and whatever the length
\* of the list (within the concurrency limit, above it, cut into chunks or not)
C1_SubmissionOrder ==
  (pc = "done" /\ ~diag /\ AllClassified)
    => /\ outcome = "returned"
       /\ ret.type = "list"
       /\ Len(ret.val) = NJobs
       /\ \A i \in 1..NJobs : ret.val[i] = Classification(i)

\* C1's case: three Jobs on two cores, a later Job finished before an earlier
\* one, the classifications differ, and the list came back in submission order
C1_Witness ==
  /\ pc = "done" /\ ~diag /\ AllClassified
  /\ cores = 2 /\ NJobs = 3
  /\ overtaken
  /\ ret = PyList(<<Fail, Ok, Fail>>)

\* a Job the call left unfinished: never taken by a worker, or cut off by the
\* pool's termination
Incomplete(i) == job[i].st \in {"pending", "aborted"}

\* C2: when pool_path_workers is over and the timeout fired, it returned the
\* sentinel; it returned the sentinel whenever a Job was left unfinished, so no
\* result of a finished Job reaches the caller then; and what it returns on
\* normal completion is a list with one entry per Job, which is never equal to
\* the sentinel
C2_SentinelNotPartial ==
  pc = "done"
    => /\ diag => (outcome = "returned" /\ ret = TimeoutSentinel)
       /\ (\E i \in 1..NJobs : Incomplete(i))
            => (diag /\ outcome = "returned" /\ ret = TimeoutSentinel)
       /\ (~diag /\ outcome = "returned")
            => /\ ret.type = "list"
               /\ Len(ret.val) = NJobs
               /\ ret # TimeoutSentinel

\* C2's case: the timeout fired when one Job had finished as Fail and another
\* was still running; the sentinel came back, not a list
C2_Witness ==
  /\ pc = "done" /\ diag
  /\ \E i \in 1..NJobs : job[i].st = "finished" /\ job[i].res = Fail
  /\ \E i \in 1..NJobs : job[i].st = "aborted"
  /\ ret = TimeoutSentinel
  /\ ret # PyList(<<>>)
  /\ ret # PyList(<<Fail>>)

\* C3 as claimed: when main passes no timeout, pool_path_workers never returns
\* the timeout sentinel and returns only when every Job has completed
C3_WaitsIndefinitely ==
  (argsTimeout = NoTimeoutArg /\ pc = "done")
    => /\ ~diag
       /\ ~(outcome = "returned" /\ ret = TimeoutSentinel)
       /\ \A i \in 1..NJobs : ~Incomplete(i)

\* C3 as amended: when main passes no timeout, the default of 60 seconds
\* applies; the sentinel is returned only when 60 seconds have passed without
\* the complete result being ready and never earlier, and otherwise the call
\* returns only when every Job has completed
C3_DefaultTimeoutApplies ==
  (argsTimeout = NoTimeoutArg /\ pc # "start")
    => /\ timeout = 60
       /\ clock <= 60
       /\ diag => /\ pc = "done"
                  /\ clock = 60
                  /\ ret = TimeoutSentinel
                  /\ ~Ready
       /\ (pc = "done" /\ ~diag) => \A i \in 1..NJobs : ~Incomplete(i)
       /\ (pc = "waiting" /\ clock < 60) => ~diag

\* C3's case: no timeout was passed, a Job ran for 60 seconds, and the call
\* returned the sentinel
C3_Witness ==
  /\ argsTimeout = NoTimeoutArg
  /\ pc = "done" /\ diag
  /\ clock = 60
  /\ ret = TimeoutSentinel
  /\ \E i \in 1..NJobs : job[i].st = "aborted"

\* C4: what path_worker returned for its latest Runner invocation is Fail (1)
\* when the captured stderr is not empty and Ok (None) when it is empty,
\* whatever the Runner returned; and so is every finished Job's result
C4_FailIffStderr ==
  /\ lastrun.stderr # "" => lastrun.res = PyInt(1)
  /\ lastrun.stderr = "" => lastrun.res = PyNone
  /\ \A i \in 1..NJobs :
       job[i].st = "finished"
         => /\ job[i].stderr # "" => job[i].res = PyInt(1)
            /\ job[i].stderr = "" => job[i].res = PyNone

\* C4's case: a Runner that returned 1 with empty stderr was classified Ok,
\* after one that wrote to stderr was classified Fail
C4_Witness ==
  /\ lastrun = [rc |-> 1, stderr |-> "", res |-> PyNone]
  /\ \E i \in 1..NJobs :
       job[i].st = "finished" /\ job[i].stderr # "" /\ job[i].res = PyInt(1)
  /\ \E i \in 1..NJobs :
       job[i].st = "finished" /\ job[i].stderr = "" /\ job[i].res = PyNone

AllJoined ==
  /\ Len(procesess) = Len(tags)
  /\ joined = Len(tags)
  /\ \A i \in 1..Len(tags) :
       /\ procesess[i].tag = tags[i]
       /\ procesess[i].st = "exited"
       /\ procesess[i].reaped

\* C5: when pool_tag_workers has returned, it has started exactly one process
\* per tag, in the order of the tags, and every one of them has ended and has
\* been joined, whatever the order they ended in and however they ended
C5_AllStartedAllJoined ==
  tpc = "done" => AllJoined

\* C5's case: three tags, the first process killed by a signal, the second
\* exited nonzero, a later process ended before an earlier one, and the call
\* returned
C5_Witness ==
  /\ tpc = "done"
  /\ Len(tags) = 3
  /\ overtook
  /\ procesess[1].end.kind = "signal"
  /\ procesess[2].end.kind = "exit"
  /\ procesess[3].end.kind = "return"
  /\ AllJoined

\* C6: the list pool_tag_workers returned has one entry per tag, and its i-th
\* entry is the exit status of the process started for the i-th tag, whatever
\* the order the processes ended in
C6_SpawnOrder ==
  tpc = "done"
    => /\ tret.type = "list"
       /\ Len(tret.val) = Len(tags)
       /\ \A i \in 1..Len(tags) :
            \E k \in 1..Len(procesess) :
              /\ procesess[k].tag = tags[i]
              /\ procesess[k].st = "exited"
              /\ tret.val[i] = PyInt(ExitStatus(procesess[k].end))

\* C6's case: tags [smoke, slow], slow exited with status 2 before smoke
\* returned, and the call returned [0, 2]
C6_Witness ==
  /\ tpc = "done"
  /\ Len(tags) = 2
  /\ overtook
  /\ procesess[1].end.kind = "return"
  /\ procesess[2].end.kind = "exit" /\ procesess[2].end.n = 2
  /\ tret = PyList(<<PyInt(0), PyInt(2)>>)

\* C7: the status pool_tag_workers reports for a tag is decided by how its
\* process ended alone: 0 when tag_worker returned (whatever the captured
\* stderr held and whatever tag_worker returned), the positive status of a
\* nonzero exit, and -S when signal S killed it
C7_StatusFromEndAlone ==
  tpc = "done"
    => \A i \in 1..Len(procesess) :
         LET e == procesess[i].end
             v == tret.val[i]
         IN  /\ e.kind = "return" => v = PyInt(0)
             /\ e.kind = "exit" => (v = PyInt(e.n) /\ e.n > 0)
             /\ e.kind = "raise" => (v.type = "int" /\ v.val > 0)
             /\ e.kind = "signal" => v = PyInt(0 - e.n)

\* C7's case: a tag whose Runner wrote to stderr, so that tag_worker returned
\* 1, is reported with status 0, next to one killed by signal 9 and reported -9
C7_Witness ==
  /\ tpc = "done"
  /\ \E i \in 1..Len(procesess) :
       /\ procesess[i].end.kind = "return"
       /\ procesess[i].end.stderr # ""
       /\ procesess[i].result = PyInt(1)
       /\ tret.val[i] = PyInt(0)
  /\ \E i \in 1..Len(procesess) :
       /\ procesess[i].end.kind = "signal"
       /\ procesess[i].end.n = 9
       /\ tret.val[i] = PyInt(0 - 9)

\* C8 as claimed: in the bounded pool, when no timeout fired, every submitted
\* Job was run, and a returned list has one entry per Job; in the unbounded
\* pool every process was started and joined; only the timeout leaves a Job
\* that was never run
C8_OnlyTimeoutAborts ==
  /\ (pc = "done" /\ ~diag)
       => \A i \in 1..NJobs : job[i].st \in {"finished", "raised"}
  /\ (pc = "done" /\ ~diag /\ outcome = "returned") => Len(ret.val) = NJobs
  /\ tpc = "done" => AllJoined

TimedOut == pc = "done" /\ diag

\* C9: once pool_path_workers has returned the sentinel, every worker process
\* of the pool has been terminated, no Job is running, nothing is queued, and
\* from then on no Job changes state (none is started, none finishes) and the
\* returned value stays the sentinel
C9_PoolTornDown ==
  /\ [](TimedOut
          => /\ \A w \in Workers : worker[w].st = "terminated"
             /\ \A i \in 1..NJobs : job[i].st # "running"
             /\ taskqueue = <<>>
             /\ outqueue = <<>>
             /\ ret = TimeoutSentinel)
  /\ [][TimedOut => (job' = job /\ worker' = worker /\ ret' = ret)]_vars

\* C9's case: the timeout fired when one Job had finished, one was running
\* and one had not been started
C9_Witness ==
  /\ TimedOut
  /\ \E i \in 1..NJobs : job[i].st = "finished"
  /\ \E i \in 1..NJobs : job[i].st = "aborted"
  /\ \E i \in 1..NJobs : job[i].st = "pending"
  /\ \A w \in Workers : worker[w].st = "terminated"

\* C10 as claimed: at most as many Jobs run at the same time as the host has
\* cores, and no worker process runs more than one Job in its lifetime
C10_OneJobPerProcess ==
  /\ Cardinality({i \in 1..NJobs : job[i].st = "running"}) <= cores
  /\ \A w \in Workers : worker[w].ran <= 1

\* C11: the Jobs of one submission have pairwise different output
\* directories, so that no two workers running at the same time, whether
\* workers of the pool of pool_path_workers or processes of pool_tag_workers,
\* write to one output directory
C11_DisjointOutputDirs ==
  /\ \A i, k \in 1..NJobs :
       (i # k /\ job[i].st = "running" /\ job[k].st = "running")
         => path_outputdir(filepathslist[i]) # path_outputdir(filepathslist[k])
  /\ \A i, k \in DOMAIN procesess :
       (i # k /\ procesess[i].st = "running" /\ procesess[k].st = "running")
         => tag_outputdir(procesess[i].tag) # tag_outputdir(procesess[k].tag)

\* C12: a worker that has left path_worker or tag_worker, by a return with
\* empty stderr, by a return with stderr output or by an exception, has closed
\* the stdout and the stderr buffer it created for the Runner invocation
C12_BuffersReleased ==
  /\ \A i \in 1..NJobs :
       job[i].st \in {"finished", "raised"}
         => (job[i].out = "closed" /\ job[i].err = "closed")
  /\ \A i \in DOMAIN procesess :
       (procesess[i].st = "exited" /\ procesess[i].end.kind \in {"return", "raise"})
         => (procesess[i].out = "closed" /\ procesess[i].err = "closed")

\* the modes in the order of main's if statements
ModeRank(mode) ==
  CASE mode = "all" -> 1
    [] mode = "folders" -> 2
    [] mode = "tags" -> 3

Modes == {"all", "folders", "tags"}

Called(mode) == \E k \in DOMAIN calls : calls[k].mode = mode

\* C13: main makes the pool calls of the requested modes in the order --all,
\* --folders, --tags, the tag mode with pool_tag_workers and the file modes
\* with pool_path_workers; a pool is only running once the calls of all
\* requested earlier modes have returned, never two pools at a time; and when
\* main returns, every requested mode was called, also after an earlier call
\* that gave a Fail or the timeout sentinel
C13_ModesInOrder ==
  /\ \A k, l \in DOMAIN calls :
       k < l => ModeRank(calls[k].mode) < ModeRank(calls[l].mode)
  /\ \A k \in DOMAIN calls :
       /\ Requested(calls[k].mode)
       /\ calls[k].pool = IF calls[k].mode = "tags" THEN "pool_tag_workers"
                          ELSE "pool_path_workers"
  /\ ~(pc # "idle" /\ tpc # "idle")
  /\ pc # "idle" => mpc \in {"all", "folders"}
  /\ tpc # "idle" => mpc = "tags"
  /\ (pc # "idle" \/ tpc # "idle")
       => \A mode \in Modes :
            (ModeRank(mode) < ModeRank(mpc) /\ Requested(mode)) => Called(mode)
  /\ (mpc = "end" /\ mainret.outcome = "returned")
       => \A mode \in Modes : Requested(mode) => Called(mode)

\* C13's case: all three modes requested, --all timed out, --folders had a
\* Fail, and the tag pool was still run before main returned
C13_Witness ==
  /\ mpc = "end"
  /\ mainret.outcome = "returned"
  /\ Len(calls) = 3
  /\ calls[1] = [mode |-> "all", pool |-> "pool_path_workers",
                 result |-> "timeout"]
  /\ calls[2] = [mode |-> "folders", pool |-> "pool_path_workers",
                 result |-> "fail"]
  /\ calls[3].mode = "tags" /\ calls[3].pool = "pool_tag_workers"

\* C14: when main is over and no pool call raised, main returned normally and
\* returned None, whichever modes were requested and whether the pool calls
\* gave all Ok, a Fail or the timeout sentinel; main never returns anything else
C14_MainIgnoresPoolOutcomes ==
  /\ (mpc = "end" /\ \A k \in DOMAIN calls : calls[k].result # "raised")
       => mainret = [outcome |-> "returned", val |-> PyNone]
  /\ mainret.val = PyNone

\* C14's case: three modes whose pool calls gave all Ok, the sentinel and a
\* Fail, and main returned None
C14_Witness ==
  /\ mpc = "end"
  /\ mainret = [outcome |-> "returned", val |-> PyNone]
  /\ Len(calls) = 3
  /\ calls[1].result = "ok"
  /\ calls[2].result = "timeout"
  /\ calls[3].result = "fail"

\* C15: no Job of a submission is handed to the Runner more than once, and
\* when the call is over without the timeout having fired, every Job was
\* handed to the Runner exactly once: none retried, none run twice, none
\* skipped; in pool_tag_workers, one process per tag ran tag_worker
C15_ExactlyOnce ==
  /\ \A i \in 1..NJobs : job[i].runs <= 1
  /\ (pc = "done" /\ ~diag) => \A i \in 1..NJobs : job[i].runs = 1
  /\ Len(procesess) <= Len(tags)
  /\ tpc = "done" => Len(procesess) = Len(tags)

\* C15 but for the Jobs that share a chunk with a raising Job: at most once
\* always, and exactly once when a list came back
C15_ExactlyOnceWhenListReturned ==
  /\ \A i \in 1..NJobs : job[i].runs <= 1
  /\ (pc = "done" /\ ~diag /\ outcome = "returned")
       => \A i \in 1..NJobs : job[i].runs = 1
  /\ (pc = "done" /\ ~diag /\ CS <= 1) => \A i \in 1..NJobs : job[i].runs = 1

\* C16: in pool_tag_workers no join has begun before a process was started
\* for every tag, and as long as a tag has no process yet the next start can
\* be taken at once, whether the processes started before are running or not
C16_AllStartedBeforeFirstJoin ==
  /\ (tpc \in {"join", "done"} \/ joined > 0) => Len(procesess) = Len(tags)
  /\ \A i \in DOMAIN procesess : procesess[i].reaped => Len(procesess) = Len(tags)
  /\ (tpc = "start" /\ Len(procesess) < Len(tags)) => ENABLED TagStart

\* C16's case: three tags, the three processes all running at the same time,
\* and no join made yet
C16_Witness ==
  /\ Len(tags) = 3
  /\ Len(procesess) = 3
  /\ \A i \in 1..3 : procesess[i].st = "running"
  /\ joined = 0

\* a path_worker invocation of the call raised
SomeJobRaised == \E i \in 1..NJobs : job[i].st = "raised"

\* the pool of the call is gone: terminated, no worker process left, no Job
\* still being run
TornDown ==
  /\ poolstate = "TERMINATE"
  /\ \A w \in Workers : worker[w].st = "terminated"
  /\ \A i \in 1..NJobs : job[i].st # "running"

\* C17 as claimed: when pool_path_workers is over and a path_worker invocation
\* raised, the call returned nothing, neither a list nor the sentinel: the
\* exception left the call, and the pool is torn down
C17_RaisePropagates ==
  (pc = "done" /\ SomeJobRaised)
    => /\ outcome = "raised"
       /\ ret = PyNone
       /\ TornDown

\* C17 amended: when pool_path_workers is over and a path_worker invocation
\* raised, the call never returned a list and the pool is torn down; if the
\* timeout did not fire, the exception left the call and nothing was returned,
\* the results of the Jobs that succeeded included; if the timeout fired
\* first, the call returned the sentinel
C17_RaisePropagatesUnlessTimeout ==
  (pc = "done" /\ SomeJobRaised)
    => /\ ret.type # "list"
       /\ TornDown
       /\ ~diag => (outcome = "raised" /\ ret = PyNone)
       /\ diag => (outcome = "returned" /\ ret = TimeoutSentinel)

\* C17's case: of three Jobs on two cores the first was classified, the second
\* raised, the third was classified, no timeout fired, and the exception left
\* the call with nothing returned
C17_Witness ==
  /\ pc = "done" /\ ~diag
  /\ cores = 2 /\ NJobs = 3
  /\ job[1].st = "finished" /\ job[2].st = "raised" /\ job[3].st = "finished"
  /\ outcome = "raised"
  /\ ret = PyNone
  /\ TornDown

\* every process pool_tag_workers is to start was started and has ended
AllEnded ==
  /\ tpc # "idle"
  /\ Len(procesess) = Len(tags)
  /\ \A i \in DOMAIN procesess : procesess[i].st = "exited"

\* C18: when pool_tag_workers has returned, every entry of its list is an
\* integer exit status, none is None, and every process had ended and had been
\* joined when its exitcode was read; and the call returns if and only if
\* every process ends: it has not returned while a process runs, and once
\* every process has ended it does return
C18_DefiniteStatusesAndReturn ==
  /\ [](tpc = "done"
          => /\ AllEnded
             /\ \A i \in DOMAIN tret.val :
                  /\ tret.val[i] # PyNone
                  /\ tret.val[i].type = "int"
                  /\ procesess[i].reaped)
  /\ (AllEnded ~> tpc = "done")

\* C18's case: three tags whose processes were killed by signal 9, raised and
\* returned, and the list that came back is [-9, 1, 0]
C18_Witness ==
  /\ tpc = "done"
  /\ Len(tags) = 3
  /\ procesess[1].end.kind = "signal"
  /\ procesess[2].end.kind = "raise"
  /\ procesess[3].end.kind = "return"
  /\ tret = PyList(<<PyInt(0 - 9), PyInt(1), PyInt(0)>>)

====
